---- MODULE Spec2Model ----
(***************************************************************************)
(* The Store of the ticket tracker (src/db.py): two SQLite tables, tickets *)
(* and comments, and the operations create_ticket, get_ticket,             *)
(* update_ticket, delete_ticket, add_comment and get_comments.             *)
(*                                                                         *)
(* A table is the set of its rows; a row is a record with the table's      *)
(* columns.  An Optional[...] value of the Python code is a sequence of    *)
(* length at most one: None is <<>> and a present value v is <<v>>.        *)
(* A timestamp is a natural number: now_iso() formats datetime.now(), and  *)
(* the order of the ISO strings is the order of the instants they denote.  *)
(*                                                                         *)
(* Spec runs the writing operations, each call as one step.  SpecQuery and *)
(* SpecOrder run list_tickets and search_tickets, called directly and by   *)
(* the three front-ends (src/cli.py, src/mcp_server.py, src/tui.py), on a  *)
(* filled store.  SpecTxn runs add_comment and delete_ticket one SQL       *)
(* statement at a time, in two processes that share the database file.    *)
(* SpecCli runs the subcommands of src/cli.py and records exit statuses.   *)
(* SpecText runs the writing operations on any text, the empty string      *)
(* included.  SpecUpdate runs update_ticket one statement at a time in two *)
(* processes, beside create_ticket and add_comment, under a clock that     *)
(* never goes backwards.                                                   *)
(***************************************************************************)
EXTENDS Integers, Sequences, FiniteSets, TLC

\* ------------------------------------------------------------------ bounds
\* Number of Store calls in one run.
MaxCalls == 3
\* The wall clock reads a value in 0..MaxTime.
MaxTime == 1
\* A store that the queries read holds at most MaxRows tickets ...
MaxRows == 2
\* ... and at most MaxComments comments.
MaxComments == 2
\* Ticket ids passed to the operations range over 1..MaxId.
MaxId == 2

\* ------------------------------------------------------------- constants
VALID_STATUSES == {"pending", "in_progress", "ready_to_test", "closed"}
VALID_PRIORITIES == {"high", "medium", "low"}

\* Python's None, and a present Optional value.
None == <<>>
Some(v) == <<v>>

\* A keyword argument left out of a call, and the value the parameter then
\* takes.
Omitted == <<>>
DefaultPriority == "medium"
DefaultTags == ""
Default(arg, d) == IF arg = Omitted THEN d ELSE arg[1]

\* ---------------------------------------------------------------- inputs
Times == 0..MaxTime
TicketIds == 1..MaxId
Projects == {"/p", "/q"}
CreateTitles == {"T"}
CreateDescriptions == {"D"}
CreatePriorities == {Some("high"), Some("urgent"), Some("")}
CreateTags == {Some("bug")}
UpdateTitles == {None, Some("U")}
UpdateDescriptions == {None, Some("E")}
UpdateStatuses == {None, Some("closed"), Some("bogus")}
UpdatePriorities == {None, Some("low"), Some("urgent")}
UpdateTags == {None, Some("bug,urgent")}
Authors == {"user"}
Contents == {"note"}

\* ----------------------------------------------------------------- state
VARIABLES
    tickets,        \* rows of table tickets
    comments,       \* rows of table comments
    seq,            \* sqlite_sequence: largest rowid ever used, per table
    clock,          \* the last value read from the wall clock
    call,           \* the last Store call: its name and arguments
    ret,            \* what the last call returned or raised
    old,            \* the tables as they were when the last call began
    created,        \* the tickets returned by create_ticket, in call order
    deleted_ids,    \* the ids for which delete_ticket returned True
    ncalls,         \* number of calls made
    frontend,       \* the last front-end command: who ran it, and how it ended
    procs           \* per process: the Store operation it is in the middle of

vars == <<tickets, comments, seq, clock, call, ret, old, created, deleted_ids,
          ncalls, frontend, procs>>

\* The processes that share the database file.
Procs == {"A", "B"}
\* A process that is not inside a Store operation.
Idle == [pc |-> "idle", txn |-> None]
\* No front-end command has run: the Store was called directly.
NoFrontend == [name |-> "none"]

\* What a call hands back: a value, or an exception.
Return(v) == [exc |-> "", val |-> v]
Raise(e) == [exc |-> e, val |-> None]

\* datetime.now().isoformat(): the wall clock's local time, which can repeat
\* a value or step backwards; the set of the values one call can return.
now_iso == Times

Max(S) == CHOOSE x \in S : \A y \in S : y <= x

\* INTEGER PRIMARY KEY AUTOINCREMENT: one more than the largest rowid the
\* table has ever held (rows: the table, s: its sqlite_sequence entry).
NextRowid_MaxPlusOne(rows, s) == Max({r.id : r \in rows} \cup {0}) + 1
NextRowid(rows, s) == Max({r.id : r \in rows} \cup {s}) + 1

\* ORDER BY created_at ASC over a set of comment rows (rows with equal
\* created_at in rowid order, the order of the table scan).
RECURSIVE OrderByCreatedAt(_)
OrderByCreatedAt(S) ==
    IF S = {} THEN <<>>
    ELSE LET m == CHOOSE x \in S : \A y \in S :
                      \/ x.created_at < y.created_at
                      \/ x.created_at = y.created_at /\ x.id <= y.id
         IN <<m>> \o OrderByCreatedAt(S \ {m})

get_comments(cms, ticket_id) ==
    OrderByCreatedAt({c \in cms : c.ticket_id = ticket_id})

get_ticket(tks, cms, ticket_id) ==
    LET rows == {r \in tks : r.id = ticket_id}
    IN IF rows = {} THEN None
       ELSE LET row == CHOOSE r \in rows : TRUE
            IN Some([id |-> row.id, project |-> row.project, title |-> row.title,
                     description |-> row.description, status |-> row.status,
                     priority |-> row.priority, tags |-> row.tags,
                     created_at |-> row.created_at, updated_at |-> row.updated_at,
                     comments |-> get_comments(cms, ticket_id)])

\* init_db on a new database file: both tables empty.
Init ==
    /\ tickets = {}
    /\ comments = {}
    /\ seq = [tickets |-> 0, comments |-> 0]
    /\ clock = 0
    /\ call = [op |-> "init_db"]
    /\ ret = Return(None)
    /\ old = [tickets |-> {}, comments |-> {}]
    /\ created = <<>>
    /\ deleted_ids = {}
    /\ ncalls = 0
    /\ frontend = NoFrontend
    /\ procs = [p \in Procs |-> Idle]

\* Every call: count it and remember the tables it started from.
Begin(c) ==
    /\ ncalls < MaxCalls
    /\ ncalls' = ncalls + 1
    /\ call' = c
    /\ old' = [tickets |-> tickets, comments |-> comments]

\* --------------------------------------------------------- create_ticket
InvalidCreatePriority_Truthy(priority) ==
    priority # "" /\ priority \notin VALID_PRIORITIES
InvalidCreatePriority(priority) == priority \notin VALID_PRIORITIES

\* The row of the INSERT INTO tickets statement.
NewTicketRow_ColumnDefaults(ticket_id, project, title, description, priority, tags, now) ==
    [id |-> ticket_id, project |-> project, title |-> title,
     description |-> description, status |-> "pending",
     priority |-> "medium", tags |-> "",
     created_at |-> now, updated_at |-> now]
NewTicketRow(ticket_id, project, title, description, priority, tags, now) ==
    [id |-> ticket_id, project |-> project, title |-> title,
     description |-> description, status |-> "pending",
     priority |-> priority, tags |-> tags,
     created_at |-> now, updated_at |-> now]

create_ticket(project, title, description, priority_arg, tags_arg) ==
    LET priority == Default(priority_arg, DefaultPriority)
        tags == Default(tags_arg, DefaultTags)
    IN
    /\ Begin([op |-> "create_ticket", project |-> project, title |-> title,
              description |-> description, priority |-> priority_arg,
              tags |-> tags_arg])
    /\ UNCHANGED <<comments, deleted_ids>>
    /\ IF InvalidCreatePriority(priority)
       THEN /\ ret' = Raise("ValueError: Invalid priority")
            /\ UNCHANGED <<tickets, seq, clock, created>>
       ELSE \E now \in now_iso :
            LET ticket_id == NextRowid(tickets, seq.tickets)
            IN /\ clock' = now
               /\ tickets' = tickets \cup
                      {NewTicketRow(ticket_id, project, title, description,
                                    priority, tags, now)}
               /\ seq' = [seq EXCEPT !.tickets = ticket_id]
               /\ ret' = Return(get_ticket(tickets', comments, ticket_id))
               /\ created' = created \o ret'.val

\* Called with priority and tags omitted, or with both given.
CreateTicket ==
    /\ UNCHANGED <<frontend, procs>>
    /\ \E project \in Projects, title \in CreateTitles,
          description \in CreateDescriptions :
           \/ create_ticket(project, title, description, Omitted, Omitted)
           \/ \E priority \in CreatePriorities, tags \in CreateTags :
                  create_ticket(project, title, description, priority, tags)

\* --------------------------------------------------------- update_ticket
InvalidStatus_Unchecked(status) == FALSE
InvalidStatus(status) == status # None /\ status[1] \notin VALID_STATUSES

InvalidPriority_Unchecked(priority) == FALSE
InvalidPriority(priority) == priority # None /\ priority[1] \notin VALID_PRIORITIES

\* The names of the columns the call provides: the list `updates`.
Updates(title, description, status, priority, tags) ==
    {f \in {"title", "description", "status", "priority", "tags"} :
        \/ f = "title" /\ title # None
        \/ f = "description" /\ description # None
        \/ f = "status" /\ status # None
        \/ f = "priority" /\ priority # None
        \/ f = "tags" /\ tags # None}

\* The row after UPDATE tickets SET <the provided columns>, updated_at = now.
SetClause_TouchesCreatedAt(row, title, description, status, priority, tags, now) ==
    [id |-> row.id,
     project |-> row.project,
     title |-> IF title # None THEN title[1] ELSE row.title,
     description |-> IF description # None THEN description[1] ELSE row.description,
     status |-> IF status # None THEN status[1] ELSE row.status,
     priority |-> IF priority # None THEN priority[1] ELSE row.priority,
     tags |-> IF tags # None THEN tags[1] ELSE row.tags,
     created_at |-> now,
     updated_at |-> now]
SetClause(row, title, description, status, priority, tags, now) ==
    [id |-> row.id,
     project |-> row.project,
     title |-> IF title # None THEN title[1] ELSE row.title,
     description |-> IF description # None THEN description[1] ELSE row.description,
     status |-> IF status # None THEN status[1] ELSE row.status,
     priority |-> IF priority # None THEN priority[1] ELSE row.priority,
     tags |-> IF tags # None THEN tags[1] ELSE row.tags,
     created_at |-> row.created_at,
     updated_at |-> now]

update_ticket(ticket_id, title, description, status, priority, tags) ==
    LET existing == get_ticket(tickets, comments, ticket_id)
    IN
    /\ Begin([op |-> "update_ticket", ticket_id |-> ticket_id, title |-> title,
              description |-> description, status |-> status,
              priority |-> priority, tags |-> tags])
    /\ UNCHANGED <<comments, seq, created, deleted_ids>>
    /\ IF existing = None
       THEN /\ ret' = Return(None)
            /\ UNCHANGED <<tickets, clock>>
       ELSE IF InvalidStatus(status)
       THEN /\ ret' = Raise("ValueError: Invalid status")
            /\ UNCHANGED <<tickets, clock>>
       ELSE IF InvalidPriority(priority)
       THEN /\ ret' = Raise("ValueError: Invalid priority")
            /\ UNCHANGED <<tickets, clock>>
       ELSE IF Updates(title, description, status, priority, tags) = {}
       THEN /\ ret' = Return(existing)
            /\ UNCHANGED <<tickets, clock>>
       ELSE \E now \in now_iso :
            /\ clock' = now
            /\ tickets' = {IF r.id = ticket_id
                             THEN SetClause(r, title, description, status, priority, tags, now)
                             ELSE r : r \in tickets}
            /\ ret' = Return(get_ticket(tickets', comments, ticket_id))

\* Called with no optional argument, with exactly one, or with all five
\* (the bound on the calls is tested before the arguments are drawn).
UpdateTicket ==
    /\ ncalls < MaxCalls
    /\ UNCHANGED <<frontend, procs>>
    /\ \E ticket_id \in TicketIds, title \in UpdateTitles,
          description \in UpdateDescriptions, status \in UpdateStatuses,
          priority \in UpdatePriorities, tags \in UpdateTags :
           /\ Cardinality(Updates(title, description, status, priority, tags)) \in {0, 1, 5}
           /\ update_ticket(ticket_id, title, description, status, priority, tags)

\* --------------------------------------------------------- delete_ticket
\* DELETE FROM comments WHERE ticket_id = ?
DeleteComments_Skipped(cms, ticket_id) == cms
DeleteComments(cms, ticket_id) == {c \in cms : c.ticket_id # ticket_id}

\* deleted = cursor.rowcount > 0, the cursor having last run the DELETE on
\* tickets (comment_rows, ticket_rows: the rows the two statements removed).
Deleted_FirstStatement(comment_rows, ticket_rows) == Cardinality(comment_rows) > 0
Deleted(comment_rows, ticket_rows) == Cardinality(ticket_rows) > 0

delete_ticket(ticket_id) ==
    LET comments1 == DeleteComments(comments, ticket_id)
        ticket_rows == {r \in tickets : r.id = ticket_id}
    IN
    /\ Begin([op |-> "delete_ticket", ticket_id |-> ticket_id])
    /\ comments' = comments1
    /\ tickets' = tickets \ ticket_rows
    /\ ret' = Return(Deleted(comments \ comments1, ticket_rows))
    /\ deleted_ids' = IF ret'.val THEN deleted_ids \cup {ticket_id} ELSE deleted_ids
    /\ UNCHANGED <<seq, clock, created>>

DeleteTicket ==
    /\ UNCHANGED <<frontend, procs>>
    /\ \E ticket_id \in TicketIds : delete_ticket(ticket_id)

\* ----------------------------------------------------------- add_comment
\* The row of INSERT INTO comments (ticket_id, author, content, created_at).
NewCommentRow(comment_id, ticket_id, author, content, now) ==
    [id |-> comment_id, ticket_id |-> ticket_id, author |-> author,
     content |-> content, created_at |-> now]

\* UPDATE tickets SET updated_at = ? WHERE id = ?
TouchTicket_EveryRow(tks, ticket_id, now) ==
    {[r EXCEPT !.updated_at = now] : r \in tks}
TouchTicket(tks, ticket_id, now) ==
    {IF r.id = ticket_id THEN [r EXCEPT !.updated_at = now] ELSE r : r \in tks}

add_comment(ticket_id, author, content) ==
    /\ Begin([op |-> "add_comment", ticket_id |-> ticket_id, author |-> author,
              content |-> content])
    /\ UNCHANGED <<created, deleted_ids>>
    /\ IF get_ticket(tickets, comments, ticket_id) = None
       THEN /\ ret' = Return(None)
            /\ UNCHANGED <<tickets, comments, seq, clock>>
       ELSE \E now \in now_iso :
            LET comment_id == NextRowid(comments, seq.comments)
                comment == NewCommentRow(comment_id, ticket_id, author, content, now)
            IN /\ clock' = now
               /\ comments' = comments \cup {comment}
               /\ seq' = [seq EXCEPT !.comments = comment_id]
               /\ tickets' = TouchTicket(tickets, ticket_id, now)
               /\ ret' = Return(Some(comment))

AddComment ==
    /\ UNCHANGED <<frontend, procs>>
    /\ \E ticket_id \in TicketIds, author \in Authors, content \in Contents :
          add_comment(ticket_id, author, content)

Next ==
    \/ CreateTicket
    \/ UpdateTicket
    \/ DeleteTicket
    \/ AddComment

Spec == Init /\ [][Next]_vars

\* ==================================================== the read queries
\* The text the queries scan (tags, titles, descriptions, comment contents,
\* and the tag and query arguments) is a sequence of characters.
ASCII_UPPER == <<"A", "B", "C", "D", "E", "F", "G", "H", "I", "J", "K", "L", "M",
                 "N", "O", "P", "Q", "R", "S", "T", "U", "V", "W", "X", "Y", "Z">>
ASCII_LOWER == <<"a", "b", "c", "d", "e", "f", "g", "h", "i", "j", "k", "l", "m",
                 "n", "o", "p", "q", "r", "s", "t", "u", "v", "w", "x", "y", "z">>

\* SQLite compares the characters of a LIKE pattern and of the text without
\* regard to the case of the ASCII letters.
Lower(ch) ==
    IF \E i \in DOMAIN ASCII_UPPER : ASCII_UPPER[i] = ch
    THEN ASCII_LOWER[CHOOSE i \in DOMAIN ASCII_UPPER : ASCII_UPPER[i] = ch]
    ELSE ch

\* text LIKE pattern, no ESCAPE clause: % matches any run of characters, _ any
\* one character, every other character itself up to ASCII case.
RECURSIVE Like(_, _)
Like(text, pattern) ==
    IF pattern = <<>> THEN text = <<>>
    ELSE IF Head(pattern) = "%"
    THEN \/ Like(text, Tail(pattern))
         \/ text # <<>> /\ Like(Tail(text), pattern)
    ELSE IF Head(pattern) = "_"
    THEN text # <<>> /\ Like(Tail(text), Tail(pattern))
    ELSE /\ text # <<>>
         /\ Lower(Head(text)) = Lower(Head(pattern))
         /\ Like(Tail(text), Tail(pattern))

\* `if project:`, `if status:`, `if priority:` -- the truth value of an
\* Optional[str]: None and the empty string are false.
Truthy(arg) == arg # None /\ arg[1] # ""
\* `if tag:` -- the same for an argument that is text.
TruthyText(arg) == arg # None /\ arg[1] # <<>>

\* f"%,{tag},%" and f"%{query}%"
TagPattern(tag) == <<"%", ",">> \o tag \o <<",", "%">>
SearchPattern(query) == <<"%">> \o query \o <<"%">>

\* The WHERE clause list_tickets builds, on one row of tickets.
ListWhere(t, project, status, priority, tag) ==
    /\ Truthy(project) => t.project = project[1]
    /\ Truthy(status) => t.status = status[1]
    /\ Truthy(priority) => t.priority = priority[1]
    /\ TruthyText(tag) => Like(<<",">> \o t.tags \o <<",">>, TagPattern(tag[1]))

\* CASE priority WHEN 'high' THEN 1 WHEN 'medium' THEN 2 ELSE 3 END
PriorityRank(priority) ==
    CASE priority = "high" -> 1
      [] priority = "medium" -> 2
      [] OTHER -> 3

\* ORDER BY <priority rank>, created_at DESC: the orders in which the rows can
\* come back (rows that agree on both keys come in an order SQL leaves open).
OrderBy_CreatedAtAsc(rows) ==
    {s \in [1..Cardinality(rows) -> rows] :
        /\ \A i, j \in DOMAIN s : i # j => s[i] # s[j]
        /\ \A i, j \in DOMAIN s : i < j =>
              \/ PriorityRank(s[i].priority) < PriorityRank(s[j].priority)
              \/ /\ PriorityRank(s[i].priority) = PriorityRank(s[j].priority)
                 /\ s[i].created_at <= s[j].created_at}
OrderBy(rows) ==
    {s \in [1..Cardinality(rows) -> rows] :
        /\ \A i, j \in DOMAIN s : i # j => s[i] # s[j]
        /\ \A i, j \in DOMAIN s : i < j =>
              \/ PriorityRank(s[i].priority) < PriorityRank(s[j].priority)
              \/ /\ PriorityRank(s[i].priority) = PriorityRank(s[j].priority)
                 /\ s[i].created_at >= s[j].created_at}

\* What list_tickets can hand back.
ListOutcomes(tks, project, status, priority, tag) ==
    IF Truthy(status) /\ status[1] \notin VALID_STATUSES
    THEN {Raise("ValueError: Invalid status")}
    ELSE IF Truthy(priority) /\ priority[1] \notin VALID_PRIORITIES
    THEN {Raise("ValueError: Invalid priority")}
    ELSE {Return(s) :
            s \in OrderBy({t \in tks : ListWhere(t, project, status, priority, tag)})}

\* tickets t LEFT JOIN comments c ON c.ticket_id = t.id: a ticket with each of
\* its comments, or with a NULL comment when it has none.
LeftJoin(tks, cms) ==
    {[t |-> t, c |-> Some(c)] : <<t, c>> \in {x \in tks \X cms : x[2].ticket_id = x[1].id}}
    \cup {[t |-> t, c |-> None] : t \in {x \in tks : \A c \in cms : c.ticket_id # x.id}}

\* The WHERE clause search_tickets builds, on one row of the join (LIKE on
\* the NULL content of a missing comment is not true).
SearchWhere(j, pattern, project, status) ==
    /\ \/ Like(j.t.title, pattern)
       \/ Like(j.t.description, pattern)
       \/ Like(j.t.tags, pattern)
       \/ j.c # None /\ Like(j.c[1].content, pattern)
    /\ Truthy(project) => j.t.project = project[1]
    /\ Truthy(status) => j.t.status = status[1]

\* SELECT DISTINCT t.*
SelectDistinct(joined) == {j.t : j \in joined}

\* What search_tickets can hand back.
SearchOutcomes(tks, cms, query, project, status) ==
    IF Truthy(status) /\ status[1] \notin VALID_STATUSES
    THEN {Raise("ValueError: Invalid status")}
    ELSE {Return(s) :
            s \in OrderBy(SelectDistinct(
                     {j \in LeftJoin(tks, cms) :
                         SearchWhere(j, SearchPattern(query), project, status)}))}

\* A call that only reads: remember it, and the tables it read.  It is the
\* first call of the run: a read leaves the tables as they are, so a later
\* read returns what it returns as the first.
Read(c) ==
    /\ ncalls = 0
    /\ ncalls' = ncalls + 1
    /\ call' = c
    /\ old' = [tickets |-> tickets, comments |-> comments]
    /\ UNCHANGED <<tickets, comments, seq, clock, created, deleted_ids, procs>>

list_tickets(project, status, priority, tag) ==
    /\ Read([op |-> "list_tickets", project |-> project, status |-> status,
             priority |-> priority, tag |-> tag])
    /\ ret' \in ListOutcomes(tickets, project, status, priority, tag)

search_tickets(query, project, status) ==
    /\ Read([op |-> "search_tickets", query |-> query, project |-> project,
             status |-> status])
    /\ ret' \in SearchOutcomes(tickets, comments, query, project, status)

\* ------------------------------------------- the stores the queries read
\* The texts stored and asked for.
EmptyText == <<>>
Bug == <<"b", "u", "g">>
BugUpper == <<"B", "U", "G">>
BugWild == <<"b", "_", "g">>
Bugfix == <<"b", "u", "g", "f", "i", "x">>
BugUrgent == <<"b", "u", "g", ",", "u", "r", "g", "e", "n", "t">>
Foo == <<"f", "o", "o">>
FooUpper == <<"F", "O", "O">>
FooWild == <<"f", "_", "o">>

\* The columns of a stored ticket that the filters read.
FilterColumns ==
    [project : Projects, status : {"pending", "closed"},
     priority : {"high", "low"}, tags : {Bug, Bugfix, BugUrgent},
     created_at : {0}]
\* The columns of a stored ticket that the ordering reads.
OrderColumns ==
    [project : {"/p"}, status : {"pending"},
     priority : VALID_PRIORITIES, tags : {Bug},
     created_at : Times]

\* The ticket create_ticket stored as number id, as later updates left it.
StoredTicket(id, cols) ==
    [id |-> id, project |-> cols.project, title |-> <<"T">>,
     description |-> <<"D">>, status |-> cols.status,
     priority |-> cols.priority, tags |-> cols.tags,
     created_at |-> cols.created_at, updated_at |-> cols.created_at]

\* The tables of at most MaxRows tickets, numbered from 1.
StoredTickets(columns) ==
    UNION {{{StoredTicket(i, f[i]) : i \in 1..n} : f \in [1..n -> columns]} :
              n \in 0..MaxRows}

\* At most MaxComments comments, numbered from 1, all on ticket 1.
StoredComments(tks, contents) ==
    IF tks = {} THEN {{}}
    ELSE UNION {{{[id |-> k, ticket_id |-> 1, author |-> "user",
                   content |-> f[k], created_at |-> 0] : k \in 1..n} :
                    f \in [1..n -> contents]} : n \in 0..MaxComments}

\* A database file that earlier runs have filled.
InitStored(tks, cms) ==
    /\ tickets = tks
    /\ comments = cms
    /\ seq = [tickets |-> Cardinality(tks), comments |-> Cardinality(cms)]
    /\ clock = 0
    /\ call = [op |-> "init_db"]
    /\ ret = Return(None)
    /\ old = [tickets |-> tks, comments |-> cms]
    /\ created = <<>>
    /\ deleted_ids = {}
    /\ ncalls = 0
    /\ frontend = NoFrontend
    /\ procs = [p \in Procs |-> Idle]

InitQuery ==
    \E tks \in StoredTickets(FilterColumns) :
        \E cms \in StoredComments(tks, {Foo}) : InitStored(tks, cms)

InitOrder ==
    \E tks \in StoredTickets(OrderColumns) : InitStored(tks, {})

\* ------------------------------------------------- the calls that read
ListProjects == {None, Some(""), Some("/p")}
ListStatuses == {None, Some(""), Some("closed"), Some("bogus")}
ListPriorities == {None, Some(""), Some("high"), Some("urgent")}
ListTags == {None, Some(EmptyText), Some(Bug), Some(BugUpper), Some(BugWild)}
SearchQueries == {Foo, FooUpper, FooWild, Bug}

\* How many of the four filters a call provides.
Filters(project, status, priority, tag) ==
    {f \in {"project", "status", "priority", "tag"} :
        \/ f = "project" /\ project # None
        \/ f = "status" /\ status # None
        \/ f = "priority" /\ priority # None
        \/ f = "tag" /\ tag # None}

\* db.list_tickets called with at most two filters (here and below, that
\* the read is the first call is tested before the arguments are drawn).
ListTickets ==
    /\ ncalls = 0
    /\ \E project \in ListProjects, status \in ListStatuses,
          priority \in ListPriorities, tag \in ListTags :
           /\ Cardinality(Filters(project, status, priority, tag)) \in {0, 1, 2}
           /\ list_tickets(project, status, priority, tag)
           /\ frontend' = NoFrontend

SearchTickets ==
    /\ ncalls = 0
    /\ \E query \in SearchQueries, project \in ListProjects, status \in ListStatuses :
           /\ search_tickets(query, project, status)
           /\ frontend' = NoFrontend

\* ------------------------------------- the front-ends' lists and searches
\* The working directory of a front-end process, and the environment
\* variable CLAUDE_PROJECT_ROOT: not set, set to the empty string, set to a path.
Cwds == Projects
Environs == {None, Some(""), Some("/q")}

\* The three get_project(): os.getcwd(), and for the automation tool
\* os.environ.get("CLAUDE_PROJECT_ROOT", os.getcwd()).
cli_get_project(cwd) == cwd
mcp_get_project(environ, cwd) == IF environ = None THEN cwd ELSE environ[1]
tui_get_project(cwd) == cwd

\* project = None if all_projects else get_project()
ProjectArg(all_projects, current) == IF all_projects THEN None ELSE Some(current)

\* What a front-end's list or search leaves behind: who asked, for which
\* current project, in "all projects" mode or not.
Listing(name, command, current, all_projects) ==
    [name |-> name, command |-> command, project |-> current,
     all_projects |-> all_projects]

\* tickets list [--status S] [--priority P] [--tag T] [--all-projects]
CliList ==
    /\ ncalls = 0
    /\ \E cwd \in Cwds, all_projects \in BOOLEAN, status \in {None, Some("closed")},
          priority \in {None, Some("high")}, tag \in {None, Some(Bug)} :
           /\ list_tickets(ProjectArg(all_projects, cli_get_project(cwd)),
                           status, priority, tag)
           /\ frontend' = Listing("cli", "list", cli_get_project(cwd), all_projects)

\* tickets search QUERY [--status S] [--all-projects]
CliSearch ==
    /\ ncalls = 0
    /\ \E cwd \in Cwds, all_projects \in BOOLEAN, query \in {Foo, Bug},
          status \in {None, Some("closed")} :
           /\ search_tickets(query, ProjectArg(all_projects, cli_get_project(cwd)), status)
           /\ frontend' = Listing("cli", "search", cli_get_project(cwd), all_projects)

\* The automation tool's list_tickets(status, priority, tag).
McpListTickets ==
    /\ ncalls = 0
    /\ \E environ \in Environs, cwd \in Cwds, status \in {None, Some("closed"), Some("bogus")},
          priority \in {None, Some("high")}, tag \in {None, Some(Bug)} :
           /\ list_tickets(Some(mcp_get_project(environ, cwd)), status, priority, tag)
           /\ frontend' = Listing("mcp", "list_tickets", mcp_get_project(environ, cwd), FALSE)

\* The automation tool's search_tickets(query, status).
McpSearchTickets ==
    /\ ncalls = 0
    /\ \E environ \in Environs, cwd \in Cwds, query \in {Foo, Bug},
          status \in {None, Some("closed"), Some("bogus")} :
           /\ search_tickets(query, Some(mcp_get_project(environ, cwd)), status)
           /\ frontend' = Listing("mcp", "search_tickets", mcp_get_project(environ, cwd), FALSE)

\* The terminal UI's refresh_tickets, with the app's show_all_projects flag,
\* search_query and the two filter selections as they are at the time.
TuiRefreshTickets ==
    /\ ncalls = 0
    /\ \E cwd \in Cwds, show_all_projects \in BOOLEAN, search_query \in {EmptyText, Foo},
          status_filter \in {None, Some("closed")}, priority_filter \in {None, Some("high")} :
           /\ IF search_query # EmptyText
              THEN search_tickets(search_query,
                                  ProjectArg(show_all_projects, tui_get_project(cwd)),
                                  status_filter)
              ELSE list_tickets(ProjectArg(show_all_projects, tui_get_project(cwd)),
                                status_filter, priority_filter, None)
           /\ frontend' = Listing("tui", "refresh_tickets", tui_get_project(cwd),
                                  show_all_projects)

NextQuery ==
    \/ ListTickets
    \/ SearchTickets
    \/ CliList
    \/ CliSearch
    \/ McpListTickets
    \/ McpSearchTickets
    \/ TuiRefreshTickets

\* The queries on a store whose tickets differ in the filtered columns.
SpecQuery == InitQuery /\ [][NextQuery]_vars
\* The queries on a store whose tickets differ in the ordering columns.
SpecOrder == InitOrder /\ [][NextQuery]_vars

\* ================================= the operations, statement by statement
\* The database file: what is committed.
Db == [tickets |-> tickets, comments |-> comments, seq |-> seq]

\* sqlite3.connect(DB_PATH) with the default isolation_level: the first
\* INSERT, UPDATE or DELETE on the connection opens a transaction, and only
\* conn.commit() writes its changes to the file.
get_connection_Autocommit == [autocommit |-> TRUE]
get_connection == [autocommit |-> FALSE]

\* What the statements of process p see: its open transaction, if any.
View(p) == IF procs[p].txn = None THEN Db ELSE procs[p].txn[1]

\* SQLite's single writer: no other connection has a transaction open.
LockFree(p) == \A q \in Procs \ {p} : procs[q].txn = None

\* Process p runs a write statement that turns what it sees into db1 and goes
\* on as `next`: the change stays in p's transaction until the commit.
Execute(p, db1, next) ==
    /\ LockFree(p)
    /\ IF get_connection.autocommit
       THEN /\ tickets' = db1.tickets
            /\ comments' = db1.comments
            /\ seq' = db1.seq
            /\ procs' = [procs EXCEPT ![p] = next]
       ELSE /\ UNCHANGED <<tickets, comments, seq>>
            /\ procs' = [procs EXCEPT ![p] = [next EXCEPT !.txn = Some(db1)]]

\* The operation of process p ends: what it was, what it hands back, and the
\* tables as they were before its first write.
End(p, r) ==
    /\ call' = procs[p].call
    /\ ret' = r
    /\ old' = [tickets |-> procs[p].before.tickets,
               comments |-> procs[p].before.comments]

\* conn.commit(); conn.close(); return
Commit(p, r) ==
    /\ IF procs[p].txn = None
       THEN UNCHANGED <<tickets, comments, seq>>
       ELSE /\ tickets' = procs[p].txn[1].tickets
            /\ comments' = procs[p].txn[1].comments
            /\ seq' = procs[p].txn[1].seq
    /\ procs' = [procs EXCEPT ![p] = Idle]
    /\ End(p, r)

\* add_comment: `if not get_ticket(ticket_id): return None`, a read on a
\* connection of its own.
AddCommentCheck(p) ==
    \E ticket_id \in TicketIds, author \in Authors, content \in Contents :
        LET c == [op |-> "add_comment", ticket_id |-> ticket_id,
                  author |-> author, content |-> content]
        IN /\ procs[p].pc = "idle"
           /\ ncalls < MaxCalls
           /\ ncalls' = ncalls + 1
           /\ UNCHANGED <<tickets, comments, seq, clock, created, deleted_ids, frontend>>
           /\ IF get_ticket(tickets, comments, ticket_id) = None
              THEN /\ call' = c
                   /\ ret' = Return(None)
                   /\ old' = [tickets |-> tickets, comments |-> comments]
                   /\ UNCHANGED procs
              ELSE /\ procs' = [procs EXCEPT ![p] =
                                  [pc |-> "checked", call |-> c, txn |-> None,
                                   before |-> Db, now |-> 0, result |-> None]]
                   /\ UNCHANGED <<call, ret, old>>

\* add_comment: now = now_iso(); INSERT INTO comments ...
AddCommentInsert(p) ==
    /\ procs[p].pc = "checked"
    /\ \E now \in now_iso :
        LET c == procs[p].call
            comment_id == NextRowid(View(p).comments, View(p).seq.comments)
            comment == NewCommentRow(comment_id, c.ticket_id, c.author, c.content, now)
        IN /\ clock' = now
           /\ Execute(p, [View(p) EXCEPT !.comments = @ \cup {comment},
                                        !.seq.comments = comment_id],
                      [procs[p] EXCEPT !.pc = "inserted", !.before = Db,
                                       !.now = now, !.result = Some(comment)])
    /\ UNCHANGED <<call, ret, old, created, deleted_ids, ncalls, frontend>>

\* add_comment: UPDATE tickets SET updated_at = ? WHERE id = ?
AddCommentTouch(p) ==
    /\ procs[p].pc = "inserted"
    /\ Execute(p, [View(p) EXCEPT
                     !.tickets = TouchTicket(@, procs[p].call.ticket_id, procs[p].now)],
               [procs[p] EXCEPT !.pc = "touched"])
    /\ UNCHANGED <<clock, call, ret, old, created, deleted_ids, ncalls, frontend>>

\* add_comment: conn.commit() and the return of the comment.
AddCommentCommit(p) ==
    /\ procs[p].pc = "touched"
    /\ Commit(p, Return(procs[p].result))
    /\ UNCHANGED <<clock, created, deleted_ids, ncalls, frontend>>

\* delete_ticket: DELETE FROM comments WHERE ticket_id = ?
DeleteTicketComments(p) ==
    \E ticket_id \in TicketIds :
        /\ procs[p].pc = "idle"
        /\ ncalls < MaxCalls
        /\ ncalls' = ncalls + 1
        /\ Execute(p, [View(p) EXCEPT !.comments = DeleteComments(@, ticket_id)],
                   [pc |-> "comments_deleted",
                    call |-> [op |-> "delete_ticket", ticket_id |-> ticket_id],
                    txn |-> None, before |-> Db, now |-> 0, result |-> None])
        /\ UNCHANGED <<clock, call, ret, old, created, deleted_ids, frontend>>

\* delete_ticket: DELETE FROM tickets WHERE id = ?; deleted = cursor.rowcount > 0
DeleteTicketRow(p) ==
    /\ procs[p].pc = "comments_deleted"
    /\ LET ticket_id == procs[p].call.ticket_id
           ticket_rows == {r \in View(p).tickets : r.id = ticket_id}
           comment_rows == procs[p].before.comments \ View(p).comments
       IN Execute(p, [View(p) EXCEPT !.tickets = @ \ ticket_rows],
                  [procs[p] EXCEPT !.pc = "ticket_deleted",
                                   !.result = Deleted(comment_rows, ticket_rows)])
    /\ UNCHANGED <<clock, call, ret, old, created, deleted_ids, ncalls, frontend>>

\* delete_ticket: conn.commit() and the return of `deleted`.
DeleteTicketCommit(p) ==
    /\ procs[p].pc = "ticket_deleted"
    /\ Commit(p, Return(procs[p].result))
    /\ deleted_ids' = IF procs[p].result
                      THEN deleted_ids \cup {procs[p].call.ticket_id}
                      ELSE deleted_ids
    /\ UNCHANGED <<clock, created, ncalls, frontend>>

\* A statement or the commit raises, or the process dies, after the first
\* write of the operation and before its commit has happened: the connection
\* goes away with its transaction, which SQLite rolls back.
Fail(p) ==
    /\ procs[p].pc \in {"inserted", "touched", "comments_deleted", "ticket_deleted"}
    /\ procs' = [procs EXCEPT ![p] = Idle]
    /\ End(p, Raise("sqlite3.OperationalError"))
    /\ UNCHANGED <<tickets, comments, seq, clock, created, deleted_ids, ncalls, frontend>>

\* Calls that run from their first statement to their return with no step of
\* another process in between: they fill the store.
WholeCreateTicket ==
    /\ \A q \in Procs : procs[q].txn = None
    /\ create_ticket("/p", "T", "D", Omitted, Omitted)
    /\ UNCHANGED <<frontend, procs>>

WholeAddComment ==
    /\ \A q \in Procs : procs[q].txn = None
    /\ \E ticket_id \in TicketIds : add_comment(ticket_id, "user", "note")
    /\ UNCHANGED <<frontend, procs>>

NextTxn ==
    \/ WholeCreateTicket
    \/ WholeAddComment
    \/ \E p \in Procs : AddCommentCheck(p)
    \/ \E p \in Procs : AddCommentInsert(p)
    \/ \E p \in Procs : AddCommentTouch(p)
    \/ \E p \in Procs : AddCommentCommit(p)
    \/ \E p \in Procs : DeleteTicketComments(p)
    \/ \E p \in Procs : DeleteTicketRow(p)
    \/ \E p \in Procs : DeleteTicketCommit(p)
    \/ \E p \in Procs : Fail(p)

\* Processes that share the store and run add_comment and delete_ticket one
\* statement at a time.
SpecTxn == Init /\ [][NextTxn]_vars

\* ============================================== the command-line front-end
\* What `tickets <command> <ticket_id> ...` leaves behind: whether the id had
\* a ticket when the command started, and the exit status of the process.
Command(command, ticket_id, exit_status) ==
    [name |-> "cli", command |-> command, ticket_id |-> ticket_id,
     existed |-> get_ticket(tickets, comments, ticket_id) # None,
     exit_status |-> exit_status]

\* sys.exit(1) on the error paths; a command that returns exits with 0.
ExitStatus(failed) == IF failed THEN 1 ELSE 0

\* db.get_ticket as a call of its own.
ReadTicket(ticket_id) ==
    /\ Begin([op |-> "get_ticket", ticket_id |-> ticket_id])
    /\ ret' = Return(get_ticket(tickets, comments, ticket_id))
    /\ UNCHANGED <<tickets, comments, seq, clock, created, deleted_ids>>

\* tickets create TITLE DESCRIPTION [--priority P] [--tags T]
CliCreate ==
    \E cwd \in Cwds, priority \in {"medium", "high"} :
        /\ create_ticket(cli_get_project(cwd), "T", "D", Some(priority), Some(""))
        /\ frontend' = [name |-> "cli", command |-> "create",
                        exit_status |-> ExitStatus(ret'.exc # "")]
        /\ UNCHANGED procs

\* tickets show ID
CliShow ==
    \E ticket_id \in TicketIds :
        /\ ReadTicket(ticket_id)
        /\ frontend' = Command("show", ticket_id, ExitStatus(ret'.val = None))
        /\ UNCHANGED procs

\* any([title, description, priority, tags is not None])
AnyChange(title, description, priority, tags) ==
    Truthy(title) \/ Truthy(description) \/ Truthy(priority) \/ tags # None

\* tickets edit ID [--title T] [--description D] [--priority P] [--tags T]
CliEdit ==
    \E ticket_id \in TicketIds, title \in {None, Some(""), Some("U")},
       description \in {None, Some("E")}, priority \in {None, Some("low")},
       tags \in {None, Some("")} :
        /\ UNCHANGED procs
        /\ IF ~AnyChange(title, description, priority, tags)
           THEN /\ frontend' = Command("edit", ticket_id, ExitStatus(FALSE))
                /\ UNCHANGED <<tickets, comments, seq, clock, call, ret, old,
                               created, deleted_ids, ncalls>>
           ELSE /\ update_ticket(ticket_id, title, description, None, priority, tags)
                /\ frontend' = Command("edit", ticket_id,
                                       ExitStatus(ret'.exc # "" \/ ret'.val = None))

\* tickets status ID NEW_STATUS
CliStatus ==
    \E ticket_id \in TicketIds, new_status \in {"in_progress", "closed"} :
        /\ update_ticket(ticket_id, None, None, Some(new_status), None, None)
        /\ frontend' = Command("status", ticket_id, ExitStatus(ret'.val = None))
        /\ UNCHANGED procs

\* tickets delete ID [--yes]: db.get_ticket, the question unless --yes, and
\* db.delete_ticket (counted as one Store call).
CliDelete ==
    \E ticket_id \in TicketIds, yes \in BOOLEAN, confirmed \in BOOLEAN :
        /\ UNCHANGED procs
        /\ IF get_ticket(tickets, comments, ticket_id) = None
           THEN /\ ReadTicket(ticket_id)
                /\ frontend' = Command("delete", ticket_id, ExitStatus(TRUE))
           ELSE IF ~yes /\ ~confirmed
           THEN /\ ReadTicket(ticket_id)
                /\ frontend' = Command("delete", ticket_id, ExitStatus(FALSE))
           ELSE /\ delete_ticket(ticket_id)
                /\ frontend' = Command("delete", ticket_id, ExitStatus(FALSE))

\* tickets comment ID MESSAGE
CliComment ==
    \E ticket_id \in TicketIds :
        /\ add_comment(ticket_id, "user", "note")
        /\ frontend' = Command("comment", ticket_id, ExitStatus(ret'.val = None))
        /\ UNCHANGED procs

NextCli ==
    \/ CliCreate
    \/ CliShow
    \/ CliEdit
    \/ CliStatus
    \/ CliDelete
    \/ CliComment

\* The Store as the command line drives it, one command after the other.
SpecCli == Init /\ [][NextCli]_vars

\* ================================================= arbitrary text arguments
\* The Store called with any string for a title and for a comment's content,
\* the empty string among them: db.py tests neither before it writes.
AnyTitles == {"", "T"}
AnyUpdateTitles == {None, Some(""), Some("U")}
AnyContents == {"", "note"}

TextCreateTicket ==
    /\ ncalls < MaxCalls
    /\ UNCHANGED <<frontend, procs>>
    /\ \E title \in AnyTitles :
           create_ticket("/p", title, "D", Omitted, Omitted)

TextUpdateTicket ==
    /\ ncalls < MaxCalls
    /\ UNCHANGED <<frontend, procs>>
    /\ \E ticket_id \in TicketIds, title \in AnyUpdateTitles :
           update_ticket(ticket_id, title, None, None, None, None)

TextAddComment ==
    /\ ncalls < MaxCalls
    /\ UNCHANGED <<frontend, procs>>
    /\ \E ticket_id \in TicketIds, content \in AnyContents :
           add_comment(ticket_id, "user", content)

NextText ==
    \/ TextCreateTicket
    \/ TextUpdateTicket
    \/ TextAddComment

\* The writing operations, each call as one step, on any text.
SpecText == Init /\ [][NextText]_vars

\* ============================== update_ticket, statement by statement
\* The clock now_iso reads does not go backwards in this step.
Monotonic == clock' >= clock

\* The columns of the row get_ticket handed back as `existing`.
ExistingRow(existing) ==
    [id |-> existing.id, project |-> existing.project, title |-> existing.title,
     description |-> existing.description, status |-> existing.status,
     priority |-> existing.priority, tags |-> existing.tags,
     created_at |-> existing.created_at, updated_at |-> existing.updated_at]

\* UPDATE tickets SET <the provided columns>, updated_at = ? WHERE id = ?
\* on the row as the statement finds it; `existing` is what the call read
\* before, which the statement does not use.
UpdateStatement_WritesExisting(row, existing, c, now) ==
    SetClause(ExistingRow(existing), c.title, c.description, c.status,
              c.priority, c.tags, now)
UpdateStatement(row, existing, c, now) ==
    SetClause(row, c.title, c.description, c.status, c.priority, c.tags, now)

\* A process that has no call running.
Free(p) == procs[p].pc \in {"idle", "returned"}

\* The call of process p has returned r; `existing` is what it had read.
Returned(c, existing, r) ==
    [pc |-> "returned", call |-> c, txn |-> None, existing |-> existing,
     result |-> r]

\* update_ticket: existing = get_ticket(ticket_id), a read on a connection of
\* its own, then the validation of the arguments and the list `updates`.
UpdateTicketCheck(p) ==
    /\ ncalls < MaxCalls
    /\ Free(p)
    /\ \E ticket_id \in TicketIds, title \in UpdateTitles,
          description \in UpdateDescriptions, status \in UpdateStatuses,
          priority \in UpdatePriorities, tags \in UpdateTags :
        LET c == [op |-> "update_ticket", ticket_id |-> ticket_id,
                  title |-> title, description |-> description,
                  status |-> status, priority |-> priority, tags |-> tags]
            existing == get_ticket(tickets, comments, ticket_id)
            early == IF existing = None THEN Some(Return(None))
                     ELSE IF InvalidStatus(status)
                     THEN Some(Raise("ValueError: Invalid status"))
                     ELSE IF InvalidPriority(priority)
                     THEN Some(Raise("ValueError: Invalid priority"))
                     ELSE IF Updates(title, description, status, priority, tags) = {}
                     THEN Some(Return(existing))
                     ELSE None
        IN /\ Cardinality(Updates(title, description, status, priority, tags)) <= 1
           /\ ncalls' = ncalls + 1
           /\ UNCHANGED <<tickets, comments, seq, clock, created, deleted_ids, frontend>>
           /\ IF early # None
              THEN /\ call' = c
                   /\ ret' = early[1]
                   /\ old' = [tickets |-> tickets, comments |-> comments]
                   /\ procs' = [procs EXCEPT ![p] = Returned(c, existing, early[1])]
              ELSE /\ procs' = [procs EXCEPT ![p] =
                                  [pc |-> "update_checked", call |-> c, txn |-> None,
                                   before |-> Db, now |-> 0, existing |-> existing,
                                   result |-> None]]
                   /\ UNCHANGED <<call, ret, old>>

\* update_ticket: params.append(now_iso()), before the connection is opened.
UpdateTicketNow(p) ==
    /\ procs[p].pc = "update_checked"
    /\ \E now \in now_iso :
        /\ clock' = now
        /\ Monotonic
        /\ procs' = [procs EXCEPT ![p] = [@ EXCEPT !.pc = "update_timed", !.now = now]]
    /\ UNCHANGED <<tickets, comments, seq, call, ret, old, created, deleted_ids,
                   ncalls, frontend>>

\* update_ticket: conn = get_connection(); cursor.execute("UPDATE tickets ...")
UpdateTicketExecute(p) ==
    /\ procs[p].pc = "update_timed"
    /\ LET c == procs[p].call
       IN Execute(p, [View(p) EXCEPT !.tickets =
                        {IF r.id = c.ticket_id
                           THEN UpdateStatement(r, procs[p].existing[1], c, procs[p].now)
                           ELSE r : r \in @}],
                  [procs[p] EXCEPT !.pc = "update_executed", !.before = Db])
    /\ UNCHANGED <<clock, call, ret, old, created, deleted_ids, ncalls, frontend>>

\* update_ticket: conn.commit(); conn.close()
UpdateTicketCommit(p) ==
    /\ procs[p].pc = "update_executed"
    /\ IF procs[p].txn = None
       THEN UNCHANGED <<tickets, comments, seq>>
       ELSE /\ tickets' = procs[p].txn[1].tickets
            /\ comments' = procs[p].txn[1].comments
            /\ seq' = procs[p].txn[1].seq
    /\ procs' = [procs EXCEPT ![p] = [@ EXCEPT !.pc = "update_committed", !.txn = None]]
    /\ UNCHANGED <<clock, call, ret, old, created, deleted_ids, ncalls, frontend>>

\* update_ticket: return get_ticket(ticket_id), one more read.
UpdateTicketReturn(p) ==
    /\ procs[p].pc = "update_committed"
    /\ LET r == Return(get_ticket(tickets, comments, procs[p].call.ticket_id))
       IN /\ End(p, r)
          /\ procs' = [procs EXCEPT ![p] = Returned(procs[p].call, procs[p].existing, r)]
    /\ UNCHANGED <<tickets, comments, seq, clock, created, deleted_ids, ncalls, frontend>>

\* create_ticket and add_comment of further processes, each from its first
\* statement to its return between two steps of the others.
SteadyCreateTicket == WholeCreateTicket /\ Monotonic
SteadyAddComment == WholeAddComment /\ Monotonic

NextUpdate ==
    \/ SteadyCreateTicket
    \/ SteadyAddComment
    \/ \E p \in Procs : UpdateTicketCheck(p)
    \/ \E p \in Procs : UpdateTicketNow(p)
    \/ \E p \in Procs : UpdateTicketExecute(p)
    \/ \E p \in Procs : UpdateTicketCommit(p)
    \/ \E p \in Procs : UpdateTicketReturn(p)

\* Processes that share the store and run update_ticket one statement at a
\* time, under a clock that never goes backwards.
SpecUpdate == Init /\ [][NextUpdate]_vars

\* ================================================================ claims
\* The row a ticket id had when the last call began, and has now.
Existed(ticket_id) == \E r \in old.tickets : r.id = ticket_id
OldRow(ticket_id) == CHOOSE r \in old.tickets : r.id = ticket_id
Exists(ticket_id) == \E r \in tickets : r.id = ticket_id
Row(ticket_id) == CHOOSE r \in tickets : r.id = ticket_id
CreatedIds == {created[i].id : i \in 1..Len(created)}
TablesUnchanged == tickets = old.tickets /\ comments = old.comments

\* C1: every stored comment's ticket_id is the id of a stored ticket;
\* add_comment on an id that has no ticket (deleted or never created) returns
\* None and inserts nothing; delete_ticket leaves no comment of the deleted
\* ticket behind.
C1_NoOrphanComment ==
    /\ \A c \in comments : \E t \in tickets : t.id = c.ticket_id
    /\ (call.op = "add_comment" /\ ~Existed(call.ticket_id))
          => ret = Return(None) /\ TablesUnchanged
    /\ call.op = "delete_ticket"
          => \A c \in comments : c.ticket_id # call.ticket_id

\* delete_ticket has just removed a ticket that had a comment.
C1_Witness ==
    /\ call.op = "delete_ticket"
    /\ ret.val = TRUE
    /\ \E c \in old.comments : c.ticket_id = call.ticket_id

\* C2: every stored ticket has a status among the four statuses and a
\* priority among the three priorities, whatever arguments the calls had.
C2_ValidEnums ==
    \A t \in tickets :
        /\ t.status \in {"pending", "in_progress", "ready_to_test", "closed"}
        /\ t.priority \in {"high", "medium", "low"}

\* update_ticket was given a status outside the set, for a stored ticket.
C2_Witness ==
    /\ call.op = "update_ticket"
    /\ Existed(call.ticket_id)
    /\ call.status = Some("bogus")
    /\ call.priority = None

\* C3: the ids returned by create_ticket are strictly increasing in call
\* order, so no id is ever returned twice, also after deletions.
C3_IdsIncrease ==
    \A i, j \in 1..Len(created) : i < j => created[i].id < created[j].id

\* create_ticket has returned after the ticket holding the highest id was
\* deleted.
C3_Witness ==
    /\ call.op = "create_ticket"
    /\ ret.exc = ""
    /\ Len(created) >= 2
    /\ created[Len(created) - 1].id \in deleted_ids

\* C4: create_ticket with a priority outside {high, medium, low} raises the
\* validation error and leaves both tables as they were.
C4_CreateRejectsPriority ==
    (/\ call.op = "create_ticket"
     /\ call.priority # Omitted
     /\ call.priority[1] \notin {"high", "medium", "low"})
        => ret.exc = "ValueError: Invalid priority" /\ TablesUnchanged

\* create_ticket was given the empty string as priority while a ticket and a
\* comment were stored.
C4_Witness ==
    /\ call.op = "create_ticket"
    /\ call.priority = Some("")
    /\ old.tickets # {}
    /\ old.comments # {}

\* C5: a create_ticket that returns adds exactly one ticket, with a new id,
\* the given project, title and description, the given priority and tags
\* (medium and the empty string when omitted), status pending, created_at
\* equal to updated_at and no comment; the other tickets and all comments
\* are unchanged, and the ticket is what the call returns.
C5_CreateAddsOneTicket ==
    (call.op = "create_ticket" /\ ret.exc = "")
        => /\ ret.val # None
           /\ LET t == ret.val[1]
              IN /\ ~Existed(t.id)
                 /\ Exists(t.id)
                 /\ tickets = old.tickets \cup {Row(t.id)}
                 /\ get_ticket(tickets, comments, t.id) = ret.val
                 /\ t.project = call.project
                 /\ t.title = call.title
                 /\ t.description = call.description
                 /\ t.priority = IF call.priority = Omitted THEN "medium"
                                  ELSE call.priority[1]
                 /\ t.tags = IF call.tags = Omitted THEN "" ELSE call.tags[1]
                 /\ t.status = "pending"
                 /\ t.created_at = t.updated_at
                 /\ t.comments = <<>>
                 /\ \A c \in comments : c.ticket_id # t.id
           /\ comments = old.comments

\* create_ticket returned a ticket with given priority and tags while another
\* ticket and a comment were stored.
C5_Witness ==
    /\ call.op = "create_ticket"
    /\ ret.exc = ""
    /\ call.priority = Some("high")
    /\ call.tags = Some("bug")
    /\ old.tickets # {}
    /\ old.comments # {}

\* C6: update_ticket on a stored ticket with a status or a priority outside
\* its set, alone or with other fields, raises the validation error and
\* leaves the ticket (and both tables) as it was.
C6_UpdateRejectsInvalid ==
    (/\ call.op = "update_ticket"
     /\ Existed(call.ticket_id)
     /\ \/ (call.status # None
            /\ call.status[1] \notin {"pending", "in_progress", "ready_to_test", "closed"})
        \/ (call.priority # None
            /\ call.priority[1] \notin {"high", "medium", "low"}))
        => /\ ret.exc \in {"ValueError: Invalid status", "ValueError: Invalid priority"}
           /\ Exists(call.ticket_id)
           /\ Row(call.ticket_id) = OldRow(call.ticket_id)
           /\ TablesUnchanged

\* update_ticket was given an invalid priority together with a valid title,
\* description, status and tags, for a stored ticket.
C6_Witness ==
    /\ call.op = "update_ticket"
    /\ Existed(call.ticket_id)
    /\ call.priority = Some("urgent")
    /\ call.status = Some("closed")
    /\ call.title # None
    /\ call.tags # None

\* The optional arguments the last update_ticket call provided.
Provided ==
    {f \in {"title", "description", "status", "priority", "tags"} : call[f] # None}
\* The value a field has after an update that provides arg, or omits it.
Updated(arg, prior) == IF arg # None THEN arg[1] ELSE prior

\* C7: an update_ticket that returns, on a stored ticket, sets the provided
\* fields to the given values and keeps every omitted field; updated_at
\* changes if and only if a field was provided, and with nothing provided the
\* ticket is returned as it was; the other tickets and all comments are
\* unchanged; on an id without a ticket it returns None and changes nothing.
C7_UpdateChangesProvidedOnly ==
    call.op = "update_ticket" =>
        IF ~Existed(call.ticket_id)
        THEN ret = Return(None) /\ TablesUnchanged
        ELSE ret.exc = "" =>
             /\ Exists(call.ticket_id)
             /\ LET o == OldRow(call.ticket_id)
                    n == Row(call.ticket_id)
                IN /\ n.title = Updated(call.title, o.title)
                   /\ n.description = Updated(call.description, o.description)
                   /\ n.status = Updated(call.status, o.status)
                   /\ n.priority = Updated(call.priority, o.priority)
                   /\ n.tags = Updated(call.tags, o.tags)
                   /\ n.id = o.id
                   /\ n.project = o.project
                   /\ n.created_at = o.created_at
                   /\ (n.updated_at # o.updated_at) <=> (Provided # {})
                   /\ tickets \ {n} = old.tickets \ {o}
             /\ Provided = {}
                   => ret.val = get_ticket(old.tickets, old.comments, call.ticket_id)
             /\ ret.val = get_ticket(tickets, comments, call.ticket_id)
             /\ comments = old.comments

\* C8: after an update_ticket that provides at least one field, get_ticket
\* shows an updated_at strictly greater than the one before the call, and
\* status closed when status="closed" was given.
C8_UpdateAdvancesUpdatedAt ==
    (/\ call.op = "update_ticket"
     /\ Existed(call.ticket_id)
     /\ ret.exc = ""
     /\ Provided # {})
        => LET g == get_ticket(tickets, comments, call.ticket_id)
           IN /\ g # None
              /\ call.status = Some("closed") => g[1].status = "closed"
              /\ g[1].updated_at > OldRow(call.ticket_id).updated_at

\* C9: every ticket returned by create_ticket and not deleted since is
\* stored, once, under the id, the project and the created_at it was created
\* with; and every stored ticket is one of them.
C9_IdProjectCreatedAtKept ==
    /\ \A i \in 1..Len(created) :
          created[i].id \notin deleted_ids
             => /\ Cardinality({t \in tickets : t.id = created[i].id}) = 1
                /\ Row(created[i].id).project = created[i].project
                /\ Row(created[i].id).created_at = created[i].created_at
    /\ \A t \in tickets : t.id \in CreatedIds

\* A ticket created at one clock reading has been updated and then commented
\* on at another.
C9_Witness ==
    /\ call.op = "add_comment"
    /\ ret.val # None
    /\ \E t \in tickets :
          /\ t.id = call.ticket_id
          /\ t.title = "U"
          /\ t.created_at # t.updated_at

\* C10: delete_ticket returns True exactly when a ticket with the id was
\* stored; afterwards get_ticket finds nothing and get_comments is empty for
\* the id, and the tickets with another id and the comments of other tickets
\* are as before.
C10_DeleteRemovesTicketOnly ==
    call.op = "delete_ticket" =>
        /\ ret.val = Existed(call.ticket_id)
        /\ get_ticket(tickets, comments, call.ticket_id) = None
        /\ get_comments(comments, call.ticket_id) = <<>>
        /\ tickets = {t \in old.tickets : t.id # call.ticket_id}
        /\ comments = {c \in old.comments : c.ticket_id # call.ticket_id}

\* delete_ticket has removed one of two stored tickets.
C10_Witness ==
    /\ call.op = "delete_ticket"
    /\ ret.val = TRUE
    /\ Cardinality(old.tickets) = 2
    /\ Cardinality(tickets) = 1

\* C11: add_comment on a stored ticket adds exactly one comment, with the
\* given ticket_id, author and content, and sets that ticket's updated_at to
\* the comment's created_at; no other column of the ticket, no other ticket
\* and no comment already stored changes.  On an id that has no ticket it
\* returns None and changes nothing.
C11_AddCommentAddsOneComment ==
    call.op = "add_comment" =>
        IF Existed(call.ticket_id)
        THEN /\ ret.exc = ""
             /\ ret.val # None
             /\ LET c == ret.val[1]
                IN /\ c.ticket_id = call.ticket_id
                   /\ c.author = call.author
                   /\ c.content = call.content
                   /\ c \notin old.comments
                   /\ \A o \in old.comments : o.id # c.id
                   /\ comments = old.comments \cup {c}
                   /\ tickets = {IF t.id = call.ticket_id
                                   THEN [t EXCEPT !.updated_at = c.created_at]
                                   ELSE t : t \in old.tickets}
        ELSE /\ ret = Return(None)
             /\ TablesUnchanged

\* add_comment has commented one of two stored tickets, at a clock value
\* that differs from the updated_at both had.
C11_Witness ==
    /\ call.op = "add_comment"
    /\ ret.val # None
    /\ Cardinality(old.tickets) = 2
    /\ \A t \in old.tickets : t.updated_at # clock

\* How often a row occurs in a returned list.
Occurrences(result, t) == Cardinality({i \in DOMAIN result : result[i] = t})

\* The elements of a tags string: the pieces between its commas.
RECURSIVE Split(_)
Split(text) ==
    IF \A i \in DOMAIN text : text[i] # ","
    THEN <<text>>
    ELSE LET i == CHOOSE k \in DOMAIN text :
                      text[k] = "," /\ \A m \in 1..(k - 1) : text[m] # ","
         IN <<SubSeq(text, 1, i - 1)>> \o Split(SubSeq(text, i + 1, Len(text)))
TagElements(tags) == {Split(tags)[i] : i \in DOMAIN Split(tags)}

\* The query occurs in the text as a run of adjacent characters, the case of
\* ASCII letters aside.
OccursIn(query, text) ==
    \E k \in 0..(Len(text) - Len(query)) :
        \A i \in DOMAIN query : Lower(text[k + i]) = Lower(query[i])

\* C12: list_tickets returns, exactly once each, the stored tickets that
\* satisfy every filter the call provides (project equal to the given string,
\* status equal, priority equal, tag an element of the tags) and no other
\* ticket; with no filter it returns every stored ticket.
C12_ListAppliesEveryFilter ==
    (call.op = "list_tickets" /\ ret.exc = "") =>
        \A t \in tickets :
            Occurrences(ret.val, t) =
                IF /\ call.project # None => t.project = call.project[1]
                   /\ call.status # None => t.status = call.status[1]
                   /\ call.priority # None => t.priority = call.priority[1]
                   /\ call.tag # None => call.tag[1] \in TagElements(t.tags)
                THEN 1 ELSE 0

\* C13: in what list_tickets and search_tickets return, a high ticket comes
\* before every medium and low one, a medium ticket before every low one, and
\* of two tickets of one priority the one created later comes first.
C13_SortedByPriorityThenNewest ==
    (call.op \in {"list_tickets", "search_tickets"} /\ ret.exc = "") =>
        \A i, j \in DOMAIN ret.val :
            i < j =>
                /\ ret.val[i].priority = "medium" => ret.val[j].priority # "high"
                /\ ret.val[i].priority = "low" => ret.val[j].priority = "low"
                /\ ret.val[i].priority = ret.val[j].priority
                      => ret.val[i].created_at >= ret.val[j].created_at

\* search_tickets has returned two tickets of one priority created at
\* different times, the later of them stored first.
C13_Witness ==
    /\ call.op = "search_tickets"
    /\ ret.exc = ""
    /\ Len(ret.val) = 2
    /\ ret.val[1].priority = ret.val[2].priority
    /\ ret.val[1].created_at > ret.val[2].created_at
    /\ ret.val[1].id < ret.val[2].id

\* C14: list_tickets(tag=t) returns a ticket exactly when t is one of the
\* elements of the ticket's tags; a tag that is part of an element, or equal
\* to one only up to letter case or as a pattern, selects nothing.
C14_TagIsAnElement ==
    (/\ call.op = "list_tickets"
     /\ ret.exc = ""
     /\ call.tag # None
     /\ call.project = None /\ call.status = None /\ call.priority = None) =>
        \A t \in tickets :
            Occurrences(ret.val, t) > 0 <=> call.tag[1] \in TagElements(t.tags)

\* C15: list_tickets given a status or a priority that is not None and not in
\* the enumerated set, the empty string included, raises; so does
\* search_tickets given such a status.
C15_QueriesRejectInvalidFilter ==
    /\ (/\ call.op = "list_tickets"
        /\ \/ call.status # None /\ call.status[1] \notin VALID_STATUSES
           \/ call.priority # None /\ call.priority[1] \notin VALID_PRIORITIES)
          => ret.exc # ""
    /\ (/\ call.op = "search_tickets"
        /\ call.status # None /\ call.status[1] \notin VALID_STATUSES)
          => ret.exc # ""

\* C16: search_tickets returns a ticket, once, exactly when the ticket
\* satisfies the project and status filters provided and the query occurs in
\* its title, its description, its tags or the content of one of its comments.
C16_SearchFindsSubstring ==
    (call.op = "search_tickets" /\ ret.exc = "") =>
        \A t \in tickets :
            Occurrences(ret.val, t) =
                IF /\ call.project # None => t.project = call.project[1]
                   /\ call.status # None => t.status = call.status[1]
                   /\ \/ OccursIn(call.query, t.title)
                      \/ OccursIn(call.query, t.description)
                      \/ OccursIn(call.query, t.tags)
                      \/ \E c \in comments :
                            c.ticket_id = t.id /\ OccursIn(call.query, c.content)
                THEN 1 ELSE 0

\* The operation of process p has written and not yet committed.
Writing(p) ==
    procs[p].pc \in {"inserted", "touched", "comments_deleted", "ticket_deleted"}

\* C17: when add_comment or delete_ticket fails after its first write and
\* before its commit, the database file is as it was before the operation
\* wrote; and while an operation is between its first write and its commit
\* the file never holds a part of what it wrote (no refreshed updated_at
\* without the comment, no comment without the refresh, no ticket left
\* without its comments).
C17_FailureLeavesNoPartialWrite ==
    /\ ret.exc = "sqlite3.OperationalError" => TablesUnchanged
    /\ \A p \in Procs :
          Writing(p) => /\ tickets = procs[p].before.tickets
                        /\ comments = procs[p].before.comments

\* delete_ticket has failed after deleting, in its transaction, the comments
\* of a stored ticket: the ticket and its comments are in the file.
C17_Witness ==
    /\ call.op = "delete_ticket"
    /\ ret.exc = "sqlite3.OperationalError"
    /\ Exists(call.ticket_id)
    /\ \E c \in comments : c.ticket_id = call.ticket_id

\* C18: with one process in add_comment(id, ...) and another in
\* delete_ticket(id), however their statements interleave, every comment in
\* the database file belongs to a ticket in the file.
C18_NoOrphanWhenInterleaved ==
    \A c \in comments : Exists(c.ticket_id)

\* C19: what a front-end's list or search returns when "all projects" is not
\* asked for (tickets list/search without --all-projects, the automation
\* tool's list_tickets/search_tickets, the terminal UI with the toggle off)
\* holds only tickets whose project is the front-end's current project,
\* whatever that is, the empty string from CLAUDE_PROJECT_ROOT included.
C19_FrontEndsScopeToProject ==
    (frontend.name # "none" /\ ~frontend.all_projects /\ ret.exc = "") =>
        \A i \in DOMAIN ret.val : ret.val[i].project = frontend.project

\* C20: show, edit, status, delete and comment, given an id that has no
\* ticket, end with an exit status other than 0, whatever their options are:
\* also edit without any field option, or with --title "".
C20_MissingTicketExitsNonZero ==
    (/\ frontend.name = "cli"
     /\ frontend.command \in {"show", "edit", "status", "delete", "comment"}
     /\ ~frontend.existed)
        => frontend.exit_status # 0

\* C21: whatever strings the Store operations are called with, every stored
\* ticket has a non-empty title and every stored comment has non-empty
\* content.
C21_NoEmptyTitleOrContent ==
    /\ \A t \in tickets : t.title # ""
    /\ \A c \in comments : c.content # ""

\* The columns the returned update_ticket call of process p provided.
Gave(p) ==
    LET c == procs[p].call
    IN Updates(c.title, c.description, c.status, c.priority, c.tags)

\* Process p has returned from an update_ticket that found its ticket and
\* wrote at least one column.
Wrote(p) ==
    /\ procs[p].pc = "returned"
    /\ procs[p].existing # None
    /\ procs[p].result.exc = ""
    /\ Gave(p) # {}

\* C22: when two processes have both returned from update_ticket calls on
\* the same ticket that provided different fields, the row holds the new
\* value of every provided field, however their existence checks and UPDATE
\* statements interleaved: no call wrote back a field it was not given.
C22_ConcurrentUpdatesBothKept ==
    \A p \in Procs, q \in Procs :
        (/\ p # q
         /\ Wrote(p)
         /\ Wrote(q)
         /\ procs[p].call.ticket_id = procs[q].call.ticket_id
         /\ Gave(p) \cap Gave(q) = {})
        => /\ Exists(procs[p].call.ticket_id)
           /\ \A f \in Gave(p) :
                  Row(procs[p].call.ticket_id)[f] = procs[p].call[f][1]
           /\ \A f \in Gave(q) :
                  Row(procs[q].call.ticket_id)[f] = procs[q].call[f][1]

\* Both calls read the ticket before either wrote: one was given the title,
\* the other the status, neither saw the other's value, and both have
\* returned.
C22_Witness ==
    /\ Wrote("A")
    /\ Wrote("B")
    /\ procs["A"].call.ticket_id = procs["B"].call.ticket_id
    /\ Gave("A") = {"title"}
    /\ Gave("B") = {"status"}
    /\ procs["A"].existing[1].status = "pending"
    /\ procs["B"].existing[1].title = "T"
    /\ Row(procs["A"].call.ticket_id).title = "U"
    /\ Row(procs["A"].call.ticket_id).status = "closed"

\* C23: under a clock that never goes backwards, every ticket has
\* created_at <= updated_at, and every comment's created_at lies between its
\* ticket's created_at and its ticket's updated_at.
C23_TimestampsOrdered ==
    /\ \A t \in tickets : t.created_at <= t.updated_at
    /\ \A c \in comments, t \in tickets :
           c.ticket_id = t.id =>
               /\ t.created_at <= c.created_at
               /\ c.created_at <= t.updated_at
====
